---- MODULE Spec2Model ----
(***************************************************************************)
(* Embedding ingestion of the manga-news repository:                       *)
(*   scripts/run_embeddings_e5_pgvector.py    (the "e5" driver: OFFSET     *)
(*       paging, whole-batch call then per-item degradation ladder)        *)
(*   scripts/run_embeddings_resume_missing.py (the "resume" driver:        *)
(*       anti-join paging, one model, no fallback)                         *)
(* Texts are sequences of characters; a character is one of the classes    *)
(* the sanitizer distinguishes.  A vector is modelled by what it is a      *)
(* vector of: the model that computed it and the text it was given.        *)
(***************************************************************************)
EXTENDS Integers, Sequences, FiniteSets, TLC

(* ------------------------------ bounds -------------------------------- *)
\* rows of manga.mn_series with indexable_rag IS TRUE
NDocs == 2
\* runs of the driver in one behaviour (the first run and its restarts)
MaxRuns == 2
\* sub-batches of one behaviour whose whole-batch call the service fails or
\* answers with too few vectors
MaxFaults == 1
\* the counters that only feed the progress line saturate here
MaxCount == 3
\* chunk_text on its own: text length, chunk size and overlap up to these
MaxLen == 7
MaxSize == 5
MaxOverlap == 5
\* rank_series_from_chunks on its own: chunks in the list, series they come
\* from, and the two parameters up to these
MaxChunks == 4
MaxSeries == 3
MaxTopSeries == 3
MaxPerSeries == 3
\* runs of one driver that write to the chunk table at the same time
NWriters == 2
\* sanitize_text on its own: characters of the input
MaxSanLen == 3
\* _build_steps on its own: length of the text, configured lengths and how
\* many of them
MaxTextLen == 6
MaxStep == 5
MaxSteps == 3

(* ------------------- configuration (scaled defaults) ------------------ *)
PAGE_SIZE == 1
EMBED_BATCH == 2
COMMIT_EVERY == 2
CHUNK_SIZE == 3
CHUNK_OVERLAP == 1
MAX_RETRIES == 1
MIN_TRUNC == 2
TRUNCATE_STEPS == <<4, 2>>
E5_PREFIX == <<"p", "sp">>
MODEL_PRIMARY == "e5_latest"
FALLBACK_MODELS == <<"e5_q8">>
MODEL == "e5_q4"
DOC_TYPE == "rag"

None == "None"
Min(a, b) == IF a < b THEN a ELSE b
Max(a, b) == IF a > b THEN a ELSE b
Range(s) == {s[k] : k \in 1..Len(s)}
\* Python's s[a:b] for 0 <= a, 0 <= b
Slice(s, a, b) == SubSeq(s, a + 1, Min(b, Len(s)))

(* ------------------------------ sanitizer ----------------------------- *)
\* "sp": whitespace; "ctl": a character of [\x00-\x08\x0b\x0c\x0e-\x1f\x7f];
\* "bom", "zw": U+FEFF and U+200B; "nel": U+0085, the one C1 control that
\* \s and str.strip() take for whitespace; "c1": any other character of
\* \x80-\x9f; "nb": a compatibility space such as U+00A0; "fw": a
\* compatibility form of a letter; anything else: a printable character.
IsSpace(c) == c \in {"sp", "nel"}
IsCtl(c) == c = "ctl"
IsBomOrZw(c) == c \in {"bom", "zw"}

RECURSIVE LStrip(_)
LStrip(s) ==
  IF s = <<>> THEN s ELSE IF IsSpace(Head(s)) THEN LStrip(Tail(s)) ELSE s

RECURSIVE RStrip(_)
RStrip(s) ==
  IF s = <<>> THEN s
  ELSE IF IsSpace(s[Len(s)]) THEN RStrip(SubSeq(s, 1, Len(s) - 1)) ELSE s

\* str.strip()
Strip(s) == RStrip(LStrip(s))

RECURSIVE RemoveBomZw(_)
RemoveBomZw(s) ==
  IF s = <<>> THEN s
  ELSE IF IsBomOrZw(Head(s)) THEN RemoveBomZw(Tail(s))
  ELSE <<Head(s)>> \o RemoveBomZw(Tail(s))

CtlToSpace(s) == [k \in 1..Len(s) |-> IF IsCtl(s[k]) THEN "sp" ELSE s[k]]

\* re.sub(r"\s+", " ", s)
RECURSIVE CollapseFrom(_, _)
CollapseFrom(s, k) ==
  IF k > Len(s) THEN <<>>
  ELSE IF IsSpace(s[k])
       THEN IF k > 1 /\ IsSpace(s[k - 1])
            THEN CollapseFrom(s, k + 1)
            ELSE <<"sp">> \o CollapseFrom(s, k + 1)
       ELSE <<s[k]>> \o CollapseFrom(s, k + 1)

\* unicodedata.normalize("NFKC", s): compatibility characters become their
\* plain forms; control characters, U+FEFF and U+200B have no decomposition
NFKC(s) ==
  [k \in 1..Len(s) |-> CASE s[k] = "nb" -> "sp"
                         [] s[k] = "fw" -> "a"
                         [] OTHER -> s[k]]

sanitize_text(s) ==
  IF s = <<>> THEN <<>>
  ELSE Strip(CollapseFrom(CtlToSpace(RemoveBomZw(NFKC(s))), 1))

(* ------------------------------- chunker ------------------------------ *)
\* the loop stopping before a window that the text does not fill
RECURSIVE ChunkLoopFullOnly(_, _, _, _)
ChunkLoopFullOnly(text, i, size, step) ==
  IF i + size <= Len(text)
  THEN <<Slice(text, i, i + size)>>
       \o ChunkLoopFullOnly(text, i + step, size, step)
  ELSE <<>>

RECURSIVE ChunkLoop(_, _, _, _)
ChunkLoop(text, i, size, step) ==
  IF i < Len(text)
  THEN <<Slice(text, i, i + size)>> \o ChunkLoop(text, i + step, size, step)
  ELSE <<>>

\* windows laid end to end, the overlap ignored
chunk_text_no_overlap(text, size, overlap) ==
  IF text = <<>> THEN <<>>
  ELSE LET t == Strip(text)
       IN IF t = <<>> THEN <<>> ELSE ChunkLoop(t, 0, size, Max(1, size))

\* the text chunked as it comes, without text.strip()
chunk_text_unstripped(text, size, overlap) ==
  IF text = <<>> THEN <<>>
  ELSE ChunkLoop(text, 0, size, Max(1, size - overlap))

\* `not text` holds of None and of "": both are the empty sequence here.
chunk_text(text, size, overlap) ==
  IF text = <<>> THEN <<>>
  ELSE LET t == Strip(text)
       IN IF t = <<>> THEN <<>>
          ELSE ChunkLoop(t, 0, size, Max(1, size - overlap))

(* -------------------------- embedding service ------------------------- *)
\* What a vector is a vector of.
Vec(model, text) == [m |-> model, input |-> text]

Models == <<MODEL_PRIMARY>> \o FALLBACK_MODELS
MaxPassage == CHUNK_SIZE + Len(E5_PREFIX)
ConfiguredSteps == Range(TRUNCATE_STEPS)

\* A behaviour of the service while one request sequence lasts.  Model m
\* answers an input of at most cap[m] characters (of exactly cap[m], when
\* exact; cap[m] = 0: it answers nothing), and only from its attempt number
\* flaky[m] on (0: at once).
SvcSet ==
  [cap : [Range(Models) -> 0..MaxPassage],
   flaky : [Range(Models) -> 0..MAX_RETRIES],
   exact : BOOLEAN]

\* A retry that succeeds gives the result of a first call that succeeds, and
\* every result of the ladder is the result under some limit that is 0 or a
\* configured step; the driver, which sees results only, is run against
\* these behaviours, chosen anew for every item.
PromptSvcSet ==
  {s \in SvcSet : /\ ~s.exact
                  /\ \A m \in Range(Models) :
                       s.flaky[m] = 0 /\ s.cap[m] \in {0} \cup ConfiguredSteps}

CallOk(svc, model, text, attempt) ==
  /\ svc.cap[model] > 0
  /\ IF svc.exact THEN Len(text) = svc.cap[model]
     ELSE Len(text) <= svc.cap[model]
  /\ attempt >= svc.flaky[model]

\* _post_embed / post_embed_batch on a call the service answers without an
\* error: data["embeddings"] as it comes, here the vectors of the first nvec
\* inputs (the client does not compare the two lengths).
PostEmbedOk(model, inputs, nvec) ==
  [k \in 1..Min(nvec, Len(inputs)) |-> Vec(model, inputs[k])]

(* -------------------------- degradation policy ------------------------ *)
RECURSIVE Dedupe(_, _)
Dedupe(steps, seen) ==
  IF steps = <<>> THEN <<>>
  ELSE IF Head(steps) \notin seen /\ Head(steps) > 0
       THEN <<Head(steps)>> \o Dedupe(Tail(steps), seen \cup {Head(steps)})
       ELSE Dedupe(Tail(steps), seen)

\* a ladder of one step, the full text
BuildStepsFullOnly(p_clean) == <<Len(p_clean)>>

\* [n for n in truncate_steps if n >= min_trunc]
RECURSIVE KeepFrom(_, _)
KeepFrom(truncate_steps, min_trunc) ==
  IF truncate_steps = <<>> THEN <<>>
  ELSE IF Head(truncate_steps) >= min_trunc
       THEN <<Head(truncate_steps)>> \o KeepFrom(Tail(truncate_steps), min_trunc)
       ELSE KeepFrom(Tail(truncate_steps), min_trunc)

\* the steps as configured, not clamped to the length of the text
BuildStepsUnclamped(L, truncate_steps, min_trunc) ==
  LET s0 == KeepFrom(truncate_steps, min_trunc)
      s1 == IF s0 = <<>> THEN <<min_trunc>> ELSE s0
      steps2 == Dedupe(s1, {})
  IN IF steps2 = <<>> THEN <<>>
     ELSE IF L <= steps2[Len(steps2)] THEN <<L>> ELSE steps2

\* _build_steps for a text of L characters under the configuration
\* TRUNCATE_STEPS = truncate_steps, MIN_TRUNC = min_trunc; <<>> stands for
\* the IndexError of steps2[-1] on an empty steps2
BuildSteps(L, truncate_steps, min_trunc) ==
  LET s0 == KeepFrom(truncate_steps, min_trunc)
      s1 == IF s0 = <<>> THEN <<min_trunc>> ELSE s0
      s2 == [k \in 1..Len(s1) |-> Min(s1[k], L)]
      s3 == IF L < s2[Len(s2)] THEN Append(s2, L) ELSE s2
      steps2 == Dedupe(s3, {})
  IN IF steps2 = <<>> THEN <<>>
     ELSE IF L <= steps2[Len(steps2)] THEN <<L>> ELSE steps2

_build_steps(p_clean) == BuildSteps(Len(p_clean), TRUNCATE_STEPS, MIN_TRUNC)

\* Python's None in the place of a vector
NoVec == [m |-> None, input |-> <<>>]
NoResult == [vec |-> NoVec, model |-> None]

\* The three nested loops of the per-item path (lines 153-169), from model
\* number mi, step number si and attempt number a on.
RECURSIVE Ladder(_, _, _, _, _, _)
Ladder(p_clean, steps, svc, mi, si, a) ==
  IF mi > Len(Models) THEN NoResult
  ELSE IF si > Len(steps) THEN Ladder(p_clean, steps, svc, mi + 1, 1, 0)
  ELSE IF a > MAX_RETRIES THEN Ladder(p_clean, steps, svc, mi, si + 1, 0)
  ELSE LET candidate == Slice(p_clean, 0, steps[si])
       IN IF CallOk(svc, Models[mi], candidate, a)
          THEN [vec |-> PostEmbedOk(Models[mi], <<candidate>>, 1)[1],
                model |-> Models[mi]]
          ELSE Ladder(p_clean, steps, svc, mi, si, a + 1)

EmbedItem(p, svc) ==
  LET p_clean == sanitize_text(p)
  IN IF p_clean = <<>> THEN NoResult
     ELSE Ladder(p_clean, _build_steps(p_clean), svc, 1, 1, 0)

\* What embed_batch_best_effort does to the outside, in order: a request to
\* the service (item 0: the whole batch) and its outcome, or a sleep.
CallEv(item, model, input, ok) ==
  [kind |-> "call", item |-> item, model |-> model, input |-> input,
   ok |-> ok]
SleepEv(item) ==
  [kind |-> "sleep", item |-> item, model |-> None, input |-> <<>>,
   ok |-> FALSE]

\* the loops nested the other way round: every model at one length before
\* the next length
RECURSIVE LadderCallsStepMajor(_, _, _, _, _, _, _)
LadderCallsStepMajor(item, p_clean, steps, svc, mi, si, a) ==
  IF si > Len(steps) THEN <<>>
  ELSE IF mi > Len(Models)
  THEN LadderCallsStepMajor(item, p_clean, steps, svc, 1, si + 1, 0)
  ELSE IF a > MAX_RETRIES
  THEN LadderCallsStepMajor(item, p_clean, steps, svc, mi + 1, si, 0)
  ELSE LET candidate == Slice(p_clean, 0, steps[si])
       IN IF CallOk(svc, Models[mi], candidate, a)
          THEN <<CallEv(item, Models[mi], candidate, TRUE)>>
          ELSE <<CallEv(item, Models[mi], candidate, FALSE)>>
               \o (IF a < MAX_RETRIES THEN <<SleepEv(item)>> ELSE <<>>)
               \o LadderCallsStepMajor(item, p_clean, steps, svc, mi, si,
                                       a + 1)

\* The requests and sleeps of the three nested loops (lines 153-169), from
\* model number mi, step number si and attempt number a on.
RECURSIVE LadderCalls(_, _, _, _, _, _, _)
LadderCalls(item, p_clean, steps, svc, mi, si, a) ==
  IF mi > Len(Models) THEN <<>>
  ELSE IF si > Len(steps)
  THEN LadderCalls(item, p_clean, steps, svc, mi + 1, 1, 0)
  ELSE IF a > MAX_RETRIES
  THEN LadderCalls(item, p_clean, steps, svc, mi, si + 1, 0)
  ELSE LET candidate == Slice(p_clean, 0, steps[si])
       IN IF CallOk(svc, Models[mi], candidate, a)
          THEN <<CallEv(item, Models[mi], candidate, TRUE)>>
          ELSE <<CallEv(item, Models[mi], candidate, FALSE)>>
               \o (IF a < MAX_RETRIES THEN <<SleepEv(item)>> ELSE <<>>)
               \o LadderCalls(item, p_clean, steps, svc, mi, si, a + 1)

\* the per-item loop (lines 142-173) from passage number k on; it ends where
\* _build_steps raises
RECURSIVE ItemCalls(_, _, _)
ItemCalls(passages, svcs, k) ==
  IF k > Len(passages) THEN <<>>
  ELSE LET p_clean == sanitize_text(passages[k])
       IN IF p_clean = <<>> THEN ItemCalls(passages, svcs, k + 1)
          ELSE IF _build_steps(p_clean) = <<>> THEN <<>>
          ELSE LadderCalls(k, p_clean, _build_steps(p_clean), svcs[k],
                           1, 1, 0)
               \o ItemCalls(passages, svcs, k + 1)

\* per-item requests made whatever the whole-batch call answered
EmbedCallsAlwaysPerItem(passages, batchOk, svcs) ==
  <<CallEv(0, MODEL_PRIMARY, passages, batchOk)>>
    \o ItemCalls(passages, svcs, 1)

\* every request and sleep of one call of embed_batch_best_effort
EmbedCalls(passages, batchOk, svcs) ==
  <<CallEv(0, MODEL_PRIMARY, passages, batchOk)>>
    \o (IF batchOk THEN <<>> ELSE ItemCalls(passages, svcs, 1))

\* batchOk: the service answers the whole-batch call to the primary model,
\* with nvec vectors; svcs[k]: its behaviour while item k is tried alone (a
\* call it answers with no vector at all fails on [0] and counts as failed).
embed_batch_best_effort(passages, batchOk, nvec, svcs) ==
  IF batchOk
  THEN LET vecs == PostEmbedOk(MODEL_PRIMARY, passages, nvec)
       IN [k \in 1..Len(vecs) |-> [vec |-> vecs[k], model |-> MODEL_PRIMARY]]
  ELSE [k \in 1..Len(passages) |-> EmbedItem(passages[k], svcs[k])]

\* no sub-batch ever flagged
UsedFallbackNever(results) == FALSE

\* line 242
UsedFallback(results) ==
  \E k \in 1..Len(results) :
    results[k].model # MODEL_PRIMARY \/ results[k].vec = NoVec

(* ------------------------------- state -------------------------------- *)
VARIABLES
  driver,                 \* which script runs: "e5" or "resume"
  src,                    \* manga.mn_series, the eligible rows, in query order
  committed,              \* the chunk table, durable rows
  pending,                \* rows inserted by the open transaction
  pc,                     \* where main() is
  runNo,                  \* the number of this run
  offset, rows, chunk_rows, i, inserted_since_commit,
  total_chunks, total_inserted, total_skipped, total_batches,
  total_batches_fallback, total_series_processed,
  faults,                 \* sub-batches the service failed or cut short
  commits,                \* commits of this run
  dbError,                \* a database write of this run has failed
  runStart,               \* the chunk table when this run started
  prev,                   \* how the previous run ended
  unstored,               \* work items of this run that reached no INSERT
  last,                   \* the sub-batch of the last turn of the inner
                          \* loop and the results it got
  ePc, ePassages, eBatchOk, eNvec, eSvc, eResults, eCalls,
                          \* one call of embed_batch_best_effort, on its own
  fn,                     \* one call of a function, on its own: its
                          \* arguments, then its result
  runs                    \* runs of one driver side by side on one table:
                          \* each one's tuples, position and transaction

tbl == <<committed, pending>>
loc == <<offset, rows, chunk_rows, i, inserted_since_commit>>
cnt == <<total_chunks, total_inserted, total_skipped, total_batches,
         total_batches_fallback, total_series_processed>>
hist == <<faults, commits, dbError, unstored, runStart, prev, last>>
emb == <<ePc, ePassages, eBatchOk, eNvec, eSvc, eResults, eCalls>>
vars == <<driver, src, pc, runNo, tbl, loc, cnt, hist, emb, fn, runs>>

Docs == 1..NDocs
Drivers == {"e5", "resume"}

\* Raw texts of the source rows.  LongText needs the sanitizer, gives three
\* chunks and has a chunk boundary at a space.
LongText == <<"a", "b", "ctl", "zw", "sp", "a", "b">>
ShortText == <<"sp", "a">>

\* A row of the source table, as the driver that runs reads it: e5 reads
\* resume and points_forts, resume reads rag_text.
SourceRows(drv) ==
  IF drv = "e5"
  THEN {[resume |-> LongText, points_forts |-> <<>>, rag_text |-> <<>>],
        [resume |-> ShortText, points_forts |-> <<"b">>, rag_text |-> <<>>],
        [resume |-> <<>>, points_forts |-> <<>>, rag_text |-> <<>>]}
  ELSE {[resume |-> <<>>, points_forts |-> <<>>, rag_text |-> LongText],
        [resume |-> <<>>, points_forts |-> <<>>, rag_text |-> ShortText],
        [resume |-> <<>>, points_forts |-> <<>>, rag_text |-> <<>>]}

Key(r) == <<r.url, r.doc_type, r.idx>>
Visible == committed \cup pending
HasChunks(table, d, t) == \E r \in table : r.url = d /\ r.doc_type = t

RECURSIVE Ascending(_)
Ascending(S) ==
  IF S = {} THEN <<>>
  ELSE LET least == CHOOSE x \in S : \A y \in S : x <= y
       IN <<least>> \o Ascending(S \ {least})

\* e5, lines 205-216: OFFSET/LIMIT over all eligible rows
PageByOffset(off) == Ascending({d \in Docs : off < d /\ d <= off + PAGE_SIZE})

\* resume, lines 122-139: the eligible rows without a chunk of DOC_TYPE
PageByAntiJoin(table) ==
  LET missing == Ascending({d \in Docs : ~HasChunks(table, d, DOC_TYPE)})
  IN Slice(missing, 0, PAGE_SIZE)

\* cleaned and chunks are computed once each, as the code computes them
\* (bound by a quantifier: a LET is evaluated anew at every use)
FieldChunks(d, t, txt) ==
  CHOOSE out \in
    {[k \in 1..Len(chunks) |->
        [url |-> d, doc_type |-> t, idx |-> k - 1, ch |-> chunks[k]]] :
       chunks \in {IF cleaned = <<>> THEN <<>>
                   ELSE chunk_text(cleaned, CHUNK_SIZE, CHUNK_OVERLAP) :
                     cleaned \in {sanitize_text(txt)}}} : TRUE

\* e5 lines 221-229, resume lines 147-154
RECURSIVE BuildChunkRows(_, _)
BuildChunkRows(drv, page) ==
  IF page = <<>> THEN <<>>
  ELSE LET d == Head(page)
       IN (IF drv = "e5"
           THEN FieldChunks(d, "resume", src[d].resume)
                \o FieldChunks(d, "points_forts", src[d].points_forts)
           ELSE FieldChunks(d, DOC_TYPE, src[d].rag_text))
          \o BuildChunkRows(drv, Tail(page))

Bump(n, k) == Min(n + k, MaxCount)

AnySvc == CHOOSE s \in PromptSvcSet : TRUE
EmbIdle ==
  /\ ePc = "off" /\ ePassages = <<>> /\ eBatchOk = TRUE /\ eNvec = 0
  /\ eSvc = AnySvc /\ eResults = <<>> /\ eCalls = <<>>
FnIdle == fn = [op |-> "none", pc |-> "off"]
RunsIdle == runs = <<>>

NoPrev == [ended |-> "none", unstored |-> 0, commits |-> 0]
NoLast == [batch |-> <<>>, results |-> <<>>]

Init ==
  /\ driver \in Drivers
  /\ src \in [Docs -> SourceRows(driver)]
  /\ committed = {} /\ pending = {}
  /\ pc = "fetch" /\ runNo = 1
  /\ offset = 0 /\ rows = <<>> /\ chunk_rows = <<>> /\ i = 0
  /\ inserted_since_commit = 0
  /\ total_chunks = 0 /\ total_inserted = 0 /\ total_skipped = 0
  /\ total_batches = 0 /\ total_batches_fallback = 0
  /\ total_series_processed = 0
  /\ faults = 0 /\ commits = 0 /\ dbError = FALSE /\ unstored = 0
  /\ runStart = {} /\ prev = NoPrev /\ last = NoLast
  /\ EmbIdle /\ FnIdle /\ RunsIdle

\* The page query and the chunk building of one turn of the outer loop; a
\* page without any chunk goes straight to the end of the turn.
FetchPage ==
  /\ pc = "fetch"
  /\ \E page \in {IF driver = "e5" THEN PageByOffset(offset)
                   ELSE PageByAntiJoin(Visible)} :
      \E work \in {BuildChunkRows(driver, page)} :
        /\ rows' = page
        /\ IF page = <<>>
           THEN /\ pc' = "final"
                /\ UNCHANGED <<chunk_rows, i, offset, total_chunks,
                               total_series_processed>>
           ELSE /\ chunk_rows' = work
                /\ i' = 0
                /\ total_chunks' = IF driver = "e5"
                                   THEN total_chunks + Len(work)
                                   ELSE total_chunks
                /\ total_series_processed' =
                     IF driver = "resume"
                     THEN Bump(total_series_processed, Len(page))
                     ELSE total_series_processed
                /\ pc' = IF work = <<>> THEN "fetch" ELSE "embed"
                /\ offset' = IF driver = "e5" /\ work = <<>>
                             THEN offset + PAGE_SIZE ELSE offset
  /\ UNCHANGED <<driver, src, runNo, tbl, inserted_since_commit,
                 total_inserted, total_skipped, total_batches,
                 total_batches_fallback, hist, emb, fn, runs>>

(* ----------------------------- persistence ---------------------------- *)
Row(t, now) ==
  [url |-> t.url, doc_type |-> t.doc_type, idx |-> t.idx, ch |-> t.ch,
   vec |-> t.vec, model |-> t.model, at |-> now]

\* ON CONFLICT ... DO UPDATE: the stored row gives way to the new one
RECURSIVE OnConflictDoUpdate(_, _, _)
OnConflictDoUpdate(table, tuples, now) ==
  IF tuples = <<>> THEN table
  ELSE LET row == Row(Head(tuples), now)
       IN OnConflictDoUpdate(
            {r \in table : Key(r) # Key(row)} \cup {row}, Tail(tuples), now)

\* a plain INSERT into a table without the unique constraint
RECURSIVE InsertPlain(_, _, _)
InsertPlain(table, tuples, now) ==
  IF tuples = <<>> THEN table
  ELSE InsertPlain(table \cup {Row(Head(tuples), now)}, Tail(tuples), now)

\* INSERT ... VALUES %s ON CONFLICT (series_url, doc_type, chunk_index)
\* DO NOTHING, on the table as the transaction sees it
RECURSIVE OnConflictDoNothing(_, _, _)
OnConflictDoNothing(table, tuples, now) ==
  IF tuples = <<>> THEN table
  ELSE LET row == Row(Head(tuples), now)
       IN OnConflictDoNothing(
            IF \E r \in table : Key(r) = Key(row) THEN table
            ELSE table \cup {row},
            Tail(tuples), now)

\* zip(batch, results) without the test of the vector
RECURSIVE InsertTuplesAll(_, _)
InsertTuplesAll(batch, results) ==
  IF batch = <<>> \/ results = <<>> THEN <<>>
  ELSE << [url |-> Head(batch).url, doc_type |-> Head(batch).doc_type,
           idx |-> Head(batch).idx, ch |-> Head(batch).ch,
           vec |-> Head(results).vec, model |-> Head(results).model] >>
       \o InsertTuplesAll(Tail(batch), Tail(results))

\* the results paired with the items from the other end
RECURSIVE InsertTuplesReversed(_, _)
InsertTuplesReversed(batch, results) ==
  IF batch = <<>> \/ results = <<>> THEN <<>>
  ELSE LET res == results[Len(results)]
       IN (IF res.vec = NoVec THEN <<>>
           ELSE << [url |-> Head(batch).url, doc_type |-> Head(batch).doc_type,
                    idx |-> Head(batch).idx, ch |-> Head(batch).ch,
                    vec |-> res.vec, model |-> res.model] >>)
          \o InsertTuplesReversed(Tail(batch),
                                  SubSeq(results, 1, Len(results) - 1))

\* e5 lines 245-251: zip(batch, results), items without a vector skipped
RECURSIVE InsertTuples(_, _)
InsertTuples(batch, results) ==
  IF batch = <<>> \/ results = <<>> THEN <<>>
  ELSE (IF Head(results).vec = NoVec THEN <<>>
        ELSE << [url |-> Head(batch).url, doc_type |-> Head(batch).doc_type,
                 idx |-> Head(batch).idx, ch |-> Head(batch).ch,
                 vec |-> Head(results).vec, model |-> Head(results).model] >>)
       \o InsertTuples(Tail(batch), Tail(results))

\* resume lines 165-168: zip(batch, vecs), every item with MODEL
RECURSIVE InsertTuplesResume(_, _)
InsertTuplesResume(batch, vecs) ==
  IF batch = <<>> \/ vecs = <<>> THEN <<>>
  ELSE << [url |-> Head(batch).url, doc_type |-> Head(batch).doc_type,
           idx |-> Head(batch).idx, ch |-> Head(batch).ch,
           vec |-> Head(vecs), model |-> MODEL] >>
       \o InsertTuplesResume(Tail(batch), Tail(vecs))

\* e5 lines 247-249: the items of zip(batch, results) counted as skipped
RECURSIVE CountSkipped(_, _)
CountSkipped(batch, results) ==
  IF batch = <<>> \/ results = <<>> THEN 0
  ELSE (IF Head(results).vec = NoVec THEN 1 ELSE 0)
       + CountSkipped(Tail(batch), Tail(results))

Batch == Slice(chunk_rows, i, i + EMBED_BATCH)
Passages(batch) == [k \in 1..Len(batch) |-> E5_PREFIX \o batch[k].ch]

DbOutcomes == {"ok", "insert_error", "commit_error"}

\* the exception caught and the run finished with what it has
AfterDbErrorSwallowed ==
  [pc |-> "final", committed |-> committed \cup pending, pending |-> {}]

\* An exception of execute_values or conn.commit() is caught nowhere: main()
\* ends with it, the connection is dropped and the open transaction with it.
AfterDbError == [pc |-> "failed_db", committed |-> committed, pending |-> {}]

\* the window test made with > in the place of >=
CommitDueLate(isc) == isc > COMMIT_EVERY

\* e5 line 272, resume line 188
CommitDue(isc) == isc >= COMMIT_EVERY

\* The insert, the counters and the commit window of one sub-batch, then the
\* end of the turn (and of the page, after the last sub-batch).
Persist(tuples, db) ==
  LET n == Len(tuples)
      isc == inserted_since_commit + n
      seen == OnConflictDoNothing(Visible, tuples, runNo)
      doCommit == CommitDue(isc)
      nexti == i + EMBED_BATCH
      pageDone == nexti >= Len(chunk_rows)
  IN /\ db = "insert_error" => n > 0
     /\ db = "commit_error" => doCommit
     /\ IF db = "ok"
        THEN /\ committed' = IF doCommit THEN seen ELSE committed
             /\ pending' = IF doCommit THEN {} ELSE seen \ committed
             /\ inserted_since_commit' = IF doCommit THEN 0 ELSE isc
             /\ commits' = IF doCommit THEN commits + 1 ELSE commits
             /\ total_inserted' = total_inserted + n
             /\ i' = nexti
             /\ pc' = IF pageDone THEN "fetch" ELSE "embed"
             /\ offset' = IF pageDone /\ driver = "e5"
                          THEN offset + PAGE_SIZE ELSE offset
             /\ UNCHANGED dbError
        ELSE /\ pc' = AfterDbError.pc
             /\ committed' = AfterDbError.committed
             /\ pending' = AfterDbError.pending
             /\ dbError' = TRUE
             /\ inserted_since_commit' =
                  IF db = "commit_error" THEN isc ELSE inserted_since_commit
             /\ total_inserted' =
                  IF db = "commit_error" THEN total_inserted + n
                  ELSE total_inserted
             /\ UNCHANGED <<commits, i, offset>>

\* One turn of the inner loop of the e5 driver, lines 234-277.
EmbedStepE5 ==
  /\ pc = "embed" /\ driver = "e5"
  /\ \E batchOk \in BOOLEAN, nvec \in 0..Len(Batch), db \in DbOutcomes :
       /\ ~batchOk => nvec = Len(Batch)
       /\ (~batchOk \/ nvec < Len(Batch)) => faults < MaxFaults
       /\ \E svcs \in IF batchOk THEN {[k \in 1..Len(Batch) |-> AnySvc]}
                      ELSE [1..Len(Batch) -> PromptSvcSet] :
            LET results ==
                  embed_batch_best_effort(Passages(Batch), batchOk, nvec, svcs)
                tuples == InsertTuples(Batch, results)
            IN /\ total_batches' = total_batches + 1
               /\ total_batches_fallback' =
                    IF UsedFallback(results) THEN total_batches_fallback + 1
                    ELSE total_batches_fallback
               /\ total_skipped' = total_skipped + CountSkipped(Batch, results)
               /\ faults' = IF batchOk /\ nvec = Len(Batch) THEN faults
                            ELSE faults + 1
               /\ unstored' = unstored + Len(Batch) - Len(tuples)
               /\ last' = [batch |-> Batch, results |-> results]
               /\ Persist(tuples, db)
  /\ UNCHANGED <<driver, src, runNo, rows, chunk_rows, total_chunks,
                 total_series_processed, runStart, prev, emb, fn, runs>>

\* One turn of the inner loop of the resume driver, lines 158-194: an
\* exception of post_embed_batch (an error, or no vector at all) is caught
\* nowhere either.
EmbedStepResume ==
  /\ pc = "embed" /\ driver = "resume"
  /\ \E nvec \in 0..Len(Batch), db \in DbOutcomes :
       /\ nvec < Len(Batch) => faults < MaxFaults
       /\ nvec = 0 => db = "ok"
       /\ total_batches' = total_batches + 1
       /\ faults' = IF nvec = Len(Batch) THEN faults ELSE faults + 1
       /\ last' = [batch |-> Batch,
                   results |-> LET vecs == PostEmbedOk(MODEL, Passages(Batch),
                                                       nvec)
                               IN [k \in 1..Len(vecs) |->
                                     [vec |-> vecs[k], model |-> MODEL]]]
       /\ IF nvec > 0
          THEN LET tuples == InsertTuplesResume(
                               Batch, PostEmbedOk(MODEL, Passages(Batch), nvec))
               IN /\ unstored' = unstored + Len(Batch) - Len(tuples)
                  /\ Persist(tuples, db)
          ELSE /\ pc' = "failed_embed"
               /\ pending' = {}
               /\ UNCHANGED <<committed, inserted_since_commit, commits,
                              total_inserted, i, offset, dbError, unstored>>
  /\ UNCHANGED <<driver, src, runNo, rows, chunk_rows, total_chunks,
                 total_skipped, total_batches_fallback,
                 total_series_processed, runStart, prev, emb, fn, runs>>

\* Lines 286-289 (e5), 202-205 (resume): the last commit and the close.
FinalCommit ==
  /\ pc = "final"
  /\ \E db \in {"ok", "commit_error"} :
       /\ db = "commit_error" => inserted_since_commit # 0
       /\ IF db = "ok"
          THEN /\ pc' = "done"
               /\ committed' = IF inserted_since_commit # 0
                               THEN Visible ELSE committed
               /\ pending' = IF inserted_since_commit # 0 THEN {} ELSE pending
               /\ commits' = IF inserted_since_commit # 0
                             THEN commits + 1 ELSE commits
               /\ UNCHANGED dbError
          ELSE /\ pc' = AfterDbError.pc
               /\ committed' = AfterDbError.committed
               /\ pending' = AfterDbError.pending
               /\ dbError' = TRUE
               /\ UNCHANGED commits
  /\ UNCHANGED <<driver, src, runNo, loc, cnt, faults, unstored, runStart,
                 prev, last, emb, fn, runs>>

Running == pc \in {"fetch", "embed", "final"}

\* The process is killed between two steps: the open transaction is lost.
Kill ==
  /\ Running
  /\ pc' = "killed"
  /\ pending' = {}
  /\ UNCHANGED <<driver, src, runNo, committed, loc, cnt, hist, emb, fn, runs>>

\* The operator starts the script again: main() from its first line.
Restart ==
  /\ ~Running
  /\ runNo < MaxRuns
  /\ runNo' = runNo + 1
  /\ pc' = "fetch"
  /\ pending' = {}
  /\ offset' = 0 /\ rows' = <<>> /\ chunk_rows' = <<>> /\ i' = 0
  /\ inserted_since_commit' = 0
  /\ total_chunks' = 0 /\ total_inserted' = 0 /\ total_skipped' = 0
  /\ total_batches' = 0 /\ total_batches_fallback' = 0
  /\ total_series_processed' = 0
  /\ commits' = 0 /\ dbError' = FALSE /\ unstored' = 0
  /\ runStart' = committed
  /\ prev' = [ended |-> pc, unstored |-> unstored, commits |-> commits]
  /\ last' = NoLast
  /\ UNCHANGED <<driver, src, committed, faults, emb, fn, runs>>

Next ==
  \/ FetchPage
  \/ EmbedStepE5
  \/ EmbedStepResume
  \/ FinalCommit
  \/ Kill
  \/ Restart

Spec == Init /\ [][Next]_vars

(* ------- the resume driver with a service and a database that work ----- *)
\* rag_text of an eligible row: NULL (the empty sequence), a text that
\* sanitizes to the empty string, texts of one chunk and a text of two
ResumeRows ==
  {[resume |-> <<>>, points_forts |-> <<>>, rag_text |-> t] :
     t \in {<<>>, <<"sp", "zw">>, <<"a">>, ShortText, <<"a", "b", "a", "b">>}}

\* the rows an earlier run has stored for the source rows of D
StoredBefore(D) ==
  {Row(t, 0) :
     t \in {[url |-> c.url, doc_type |-> c.doc_type, idx |-> c.idx,
              ch |-> c.ch, vec |-> Vec(MODEL, E5_PREFIX \o c.ch),
              model |-> MODEL] :
              c \in UNION {Range(FieldChunks(d, DOC_TYPE, src[d].rag_text)) :
                             d \in D}}}

\* The script is started on a table that holds the chunks of some of the
\* source rows already: what it is for.
InitResume ==
  /\ driver = "resume"
  /\ src \in [Docs -> ResumeRows]
  /\ \E D \in SUBSET Docs : committed = StoredBefore(D)
  /\ runStart = committed
  /\ pending = {}
  /\ pc = "fetch" /\ runNo = 1
  /\ offset = 0 /\ rows = <<>> /\ chunk_rows = <<>> /\ i = 0
  /\ inserted_since_commit = 0
  /\ total_chunks = 0 /\ total_inserted = 0 /\ total_skipped = 0
  /\ total_batches = 0 /\ total_batches_fallback = 0
  /\ total_series_processed = 0
  /\ faults = 0 /\ commits = 0 /\ dbError = FALSE /\ unstored = 0
  /\ prev = NoPrev /\ last = NoLast
  /\ EmbIdle /\ FnIdle /\ RunsIdle

\* a turn of the inner loop in which the service returns one vector per
\* passage and the database takes the rows
EmbedStepResumeOk == EmbedStepResume /\ faults' = faults /\ ~dbError'
FinalCommitOk == FinalCommit /\ ~dbError'

NextResume ==
  \/ FetchPage
  \/ EmbedStepResumeOk
  \/ FinalCommitOk

\* main() is one thread that nothing suspends: the statement it stands at
\* is executed.
SpecResume == InitResume /\ [][NextResume]_vars /\ WF_vars(NextResume)

(* ---------------- embed_batch_best_effort, called on its own ----------- *)
\* passages the policy can be given: one that sanitizes to nothing, one
\* that the sanitizer shortens, and clean ones of every length up to
\* MaxPassage
PassageTexts ==
  {<<"zw">>, <<"a">>, <<"a", "b">>, <<"p", "sp", "a">>,
   <<"p", "sp", "sp", "a", "b">>, <<"p", "sp", "a", "b", "a">>}
PassageLists ==
  {<<t>> : t \in PassageTexts} \cup {<<t, u>> : t \in PassageTexts, u \in PassageTexts}

DriverIdle ==
  /\ driver = "e5"
  /\ src = [d \in Docs |-> [resume |-> <<>>, points_forts |-> <<>>,
                            rag_text |-> <<>>]]
  /\ committed = {} /\ pending = {}
  /\ pc = "off" /\ runNo = 1
  /\ offset = 0 /\ rows = <<>> /\ chunk_rows = <<>> /\ i = 0
  /\ inserted_since_commit = 0
  /\ total_chunks = 0 /\ total_inserted = 0 /\ total_skipped = 0
  /\ total_batches = 0 /\ total_batches_fallback = 0
  /\ total_series_processed = 0
  /\ faults = 0 /\ commits = 0 /\ dbError = FALSE /\ unstored = 0
  /\ runStart = {} /\ prev = NoPrev /\ last = NoLast

InitEmbed ==
  /\ DriverIdle /\ FnIdle /\ RunsIdle
  /\ ePc = "call"
  /\ ePassages \in PassageLists
  /\ eBatchOk \in BOOLEAN
  /\ eNvec \in 0..Len(ePassages)
  /\ ~eBatchOk => eNvec = Len(ePassages)
  /\ eSvc \in SvcSet
  /\ eResults = <<>> /\ eCalls = <<>>

\* _build_steps ends with steps2[-1]: an IndexError when steps2 is empty,
\* raised outside every try block of embed_batch_best_effort.
BuildStepsRaises(p) ==
  LET p_clean == sanitize_text(p)
  IN p_clean # <<>> /\ _build_steps(p_clean) = <<>>

EmbedCall ==
  /\ ePc = "call"
  /\ IF ~eBatchOk /\ \E k \in 1..Len(ePassages) : BuildStepsRaises(ePassages[k])
     THEN ePc' = "raised" /\ UNCHANGED eResults
     ELSE /\ ePc' = "returned"
          /\ eResults' = embed_batch_best_effort(
                           ePassages, eBatchOk, eNvec,
                           [k \in 1..Len(ePassages) |-> eSvc])
  /\ eCalls' = EmbedCalls(ePassages, eBatchOk,
                          [k \in 1..Len(ePassages) |-> eSvc])
  /\ UNCHANGED <<driver, src, pc, runNo, tbl, loc, cnt, hist,
                 ePassages, eBatchOk, eNvec, eSvc, fn, runs>>

NextEmbed == EmbedCall

SpecEmbed == InitEmbed /\ [][NextEmbed]_vars

(* ----------------------- chunk_text, called on its own ---------------- *)
\* a text of n characters, no two alike
Marked(n) == [k \in 1..n |-> ToString(k)]

\* texts chunk_text can be given: empty, whitespace only, sanitized with
\* and without a space inside, and with whitespace around
ChunkTexts ==
  {Marked(n) : n \in 0..MaxLen}
    \cup {<<"sp">> \o Marked(n) \o <<"sp", "sp">> : n \in 0..MaxLen}
    \cup {<<"a", "sp", "b">>, <<"sp">>}

\* the call of the end-to-end example: 1300 characters, S = 1200, O = 150
ExampleCall ==
  [op |-> "chunk_text", pc |-> "call", text |-> Marked(1300),
   size |-> 1200, overlap |-> 150, out |-> <<>>]

InitChunk ==
  /\ DriverIdle /\ EmbIdle /\ RunsIdle
  /\ fn \in {[op |-> "chunk_text", pc |-> "call", text |-> t, size |-> sz,
               overlap |-> o, out |-> <<>>] :
               t \in ChunkTexts, sz \in 1..MaxSize, o \in 0..MaxOverlap}
             \cup {ExampleCall}

ChunkCall ==
  /\ fn.op = "chunk_text" /\ fn.pc = "call"
  /\ fn' = [fn EXCEPT !.pc = "returned",
                      !.out = chunk_text(fn.text, fn.size, fn.overlap)]
  /\ UNCHANGED <<driver, src, pc, runNo, tbl, loc, cnt, hist, emb, runs>>

NextChunk == ChunkCall

SpecChunk == InitChunk /\ [][NextChunk]_vars

(* --------------------- _build_steps, called on its own ---------------- *)
\* TRUNCATE_STEPS as the environment can give it: up to MaxSteps lengths of
\* 1..MaxStep, from the longest to the shortest (the same length may come
\* twice)
StepLists ==
  {t \in UNION {[1..n -> 1..MaxStep] : n \in 1..MaxSteps} :
     \A k \in 1..Len(t) - 1 : t[k] >= t[k + 1]}

InitSteps ==
  /\ DriverIdle /\ EmbIdle /\ RunsIdle
  /\ fn \in {[op |-> "_build_steps", pc |-> "call", L |-> n,
               truncate_steps |-> t, min_trunc |-> m, out |-> <<>>] :
               n \in 1..MaxTextLen, t \in StepLists, m \in 1..MaxStep + 1}

StepsCall ==
  /\ fn.op = "_build_steps" /\ fn.pc = "call"
  /\ fn' = [fn EXCEPT
              !.pc = "returned",
              !.out = BuildSteps(fn.L, fn.truncate_steps, fn.min_trunc)]
  /\ UNCHANGED <<driver, src, pc, runNo, tbl, loc, cnt, hist, emb, runs>>

NextSteps == StepsCall

SpecSteps == InitSteps /\ [][NextSteps]_vars

(* --------------------- sanitize_text, called on its own --------------- *)
\* one character of every class the sanitizer tells apart
SanChars == {"a", "sp", "ctl", "bom", "zw", "nel", "c1", "nb", "fw"}

\* None and every string of up to MaxSanLen characters; None is the empty
\* sequence, as "" is: `not s` holds of both
SanTexts == UNION {[1..n -> SanChars] : n \in 0..MaxSanLen}

InitSan ==
  /\ DriverIdle /\ EmbIdle /\ RunsIdle
  /\ fn \in {[op |-> "sanitize_text", pc |-> "call", s |-> t, out |-> <<>>] :
               t \in SanTexts}

SanCall ==
  /\ fn.op = "sanitize_text" /\ fn.pc = "call"
  /\ fn' = [fn EXCEPT !.pc = "returned", !.out = sanitize_text(fn.s)]
  /\ UNCHANGED <<driver, src, pc, runNo, tbl, loc, cnt, hist, emb, runs>>

NextSan == SanCall

SpecSan == InitSan /\ [][NextSan]_vars

(* ---------------- rank_series_from_chunks, called on its own ---------- *)
\* the cap tested with <=: one chunk more than the cap is kept
RECURSIVE BySeriesOneMore(_, _, _)
BySeriesOneMore(chunks, max_chunks_per_series, acc) ==
  IF chunks = <<>> THEN acc
  ELSE LET row == Head(chunks)
           s == row.series_url
           acc1 == IF \E k \in 1..Len(acc) : acc[k].series_url = s THEN acc
                   ELSE Append(acc, [series_url |-> s, rows |-> <<>>])
           acc2 == [k \in 1..Len(acc1) |->
                      IF acc1[k].series_url = s
                         /\ Len(acc1[k].rows) <= max_chunks_per_series
                      THEN [acc1[k] EXCEPT !.rows = Append(@, row)]
                      ELSE acc1[k]]
       IN BySeriesOneMore(Tail(chunks), max_chunks_per_series, acc2)

\* a row appended to the list of every series that has room, its own or not
RECURSIVE BySeriesAnyList(_, _, _)
BySeriesAnyList(chunks, max_chunks_per_series, acc) ==
  IF chunks = <<>> THEN acc
  ELSE LET row == Head(chunks)
           s == row.series_url
           acc1 == IF \E k \in 1..Len(acc) : acc[k].series_url = s THEN acc
                   ELSE Append(acc, [series_url |-> s, rows |-> <<>>])
           acc2 == [k \in 1..Len(acc1) |->
                      IF Len(acc1[k].rows) < max_chunks_per_series
                      THEN [acc1[k] EXCEPT !.rows = Append(@, row)]
                      ELSE acc1[k]]
       IN BySeriesAnyList(Tail(chunks), max_chunks_per_series, acc2)

\* by_series after the loop of lines 69-74: one entry per series, in the
\* order the series first appear (a dict keeps insertion order)
RECURSIVE BySeries(_, _, _)
BySeries(chunks, max_chunks_per_series, acc) ==
  IF chunks = <<>> THEN acc
  ELSE LET row == Head(chunks)
           s == row.series_url
           acc1 == IF \E k \in 1..Len(acc) : acc[k].series_url = s THEN acc
                   ELSE Append(acc, [series_url |-> s, rows |-> <<>>])
           acc2 == [k \in 1..Len(acc1) |->
                      IF acc1[k].series_url = s
                         /\ Len(acc1[k].rows) < max_chunks_per_series
                      THEN [acc1[k] EXCEPT !.rows = Append(@, row)]
                      ELSE acc1[k]]
       IN BySeries(Tail(chunks), max_chunks_per_series, acc2)

\* sum(r["cosine_sim"] for r in rows)
RECURSIVE SumSim(_)
SumSim(kept) ==
  IF kept = <<>> THEN 0 ELSE Head(kept).cosine_sim + SumSim(Tail(kept))

\* lines 76-83
Ranked(by_series) ==
  [k \in 1..Len(by_series) |->
     [series_url |-> by_series[k].series_url,
      score |-> SumSim(by_series[k].rows),
      evidences |-> by_series[k].rows]]

\* x put before the entries of equal score
InsertBeforeEqual(sorted, x) ==
  LET before == {k \in 1..Len(sorted) : sorted[k].score > x.score}
      n == Cardinality(before)
  IN SubSeq(sorted, 1, n) \o <<x>> \o SubSeq(sorted, n + 1, Len(sorted))

\* x put into a list sorted by descending score, after the entries of equal
\* score: list.sort is stable, with reverse=True too
InsertStable(sorted, x) ==
  LET before == {k \in 1..Len(sorted) : sorted[k].score >= x.score}
      n == Cardinality(before)
  IN SubSeq(sorted, 1, n) \o <<x>> \o SubSeq(sorted, n + 1, Len(sorted))

\* the sort without reverse=True
RECURSIVE SortByScoreAsc(_, _)
SortByScoreAsc(ranked, sorted) ==
  IF ranked = <<>> THEN sorted
  ELSE LET x == Head(ranked)
           n == Cardinality({k \in 1..Len(sorted) : sorted[k].score <= x.score})
       IN SortByScoreAsc(
            Tail(ranked),
            SubSeq(sorted, 1, n) \o <<x>> \o SubSeq(sorted, n + 1, Len(sorted)))

\* ranked.sort(key=lambda x: x["score"], reverse=True)
RECURSIVE SortByScoreDesc(_, _)
SortByScoreDesc(ranked, sorted) ==
  IF ranked = <<>> THEN sorted
  ELSE SortByScoreDesc(Tail(ranked), InsertStable(sorted, Head(ranked)))

\* the list cut to top_series before it is sorted
rank_series_cut_first(chunks, top_series, max_chunks_per_series) ==
  LET by_series == BySeries(chunks, max_chunks_per_series, <<>>)
  IN SortByScoreDesc(Slice(Ranked(by_series), 0, top_series), <<>>)

rank_series_from_chunks(chunks, top_series, max_chunks_per_series) ==
  LET by_series == BySeries(chunks, max_chunks_per_series, <<>>)
      ranked == SortByScoreDesc(Ranked(by_series), <<>>)
  IN Slice(ranked, 0, top_series)

\* cosine_sim = 1 - distance, in similarity units; it can be negative
Sims == {-1, 0, 1, 2}

\* What search_top_chunks returns: rows in ascending distance, that is in
\* descending cosine_sim; chunk_index tells the rows of a list apart.
ChunkLists ==
  UNION {
    {[k \in 1..n |-> [series_url |-> u[k], cosine_sim |-> c[k],
                      chunk_index |-> k]] :
       u \in [1..n -> 1..MaxSeries],
       c \in {f \in [1..n -> Sims] : \A k \in 1..(n - 1) : f[k] >= f[k + 1]}}
    : n \in 0..MaxChunks}

InitRank ==
  /\ DriverIdle /\ EmbIdle /\ RunsIdle
  /\ fn \in [op : {"rank_series_from_chunks"}, pc : {"call"},
            chunks : ChunkLists, top_series : 0..MaxTopSeries,
            max_chunks_per_series : 0..MaxPerSeries, out : {<<>>}]

RankCall ==
  /\ fn.op = "rank_series_from_chunks" /\ fn.pc = "call"
  /\ fn' = [fn EXCEPT !.pc = "returned",
                      !.out = rank_series_from_chunks(
                                fn.chunks, fn.top_series,
                                fn.max_chunks_per_series)]
  /\ UNCHANGED <<driver, src, pc, runNo, tbl, loc, cnt, hist, emb, runs>>

NextRank == RankCall

SpecRank == InitRank /\ [][NextRank]_vars

(* ------------------- the embedding client, called on its own ---------- *)
\* What the service can answer to one request: a failure (no connection, a
\* status that raise_for_status rejects, a body with "error" or without
\* "embeddings"), or a body whose "embeddings" holds nvec vectors.
Responses(inputs) ==
  {[error |-> TRUE, nvec |-> 0]}
    \cup {[error |-> FALSE, nvec |-> n] : n \in 0..Len(inputs)}

\* e5, lines 77-96: data["embeddings"] is returned as it is
_post_embed(model, inputs, resp) ==
  IF resp.error THEN [raised |-> TRUE, vecs |-> <<>>]
  ELSE [raised |-> FALSE, vecs |-> PostEmbedOk(model, inputs, resp.nvec)]

\* resume, lines 62-77: an empty or missing "embeddings" raises
post_embed_batch(passages, resp) ==
  IF resp.error \/ resp.nvec = 0 THEN [raised |-> TRUE, vecs |-> <<>>]
  ELSE [raised |-> FALSE, vecs |-> PostEmbedOk(MODEL, passages, resp.nvec)]

Clients == {"_post_embed", "post_embed_batch"}

InitClient ==
  /\ DriverIdle /\ EmbIdle /\ RunsIdle
  /\ \E op \in Clients, inputs \in PassageLists :
       \E resp \in Responses(inputs) :
         fn = [op |-> op, pc |-> "call", inputs |-> inputs, resp |-> resp,
               model |-> IF op = "_post_embed" THEN MODEL_PRIMARY ELSE MODEL,
               out |-> [raised |-> FALSE, vecs |-> <<>>]]

ClientCall ==
  /\ fn.op \in Clients /\ fn.pc = "call"
  /\ fn' = [fn EXCEPT
              !.pc = "returned",
              !.out = IF fn.op = "_post_embed"
                      THEN _post_embed(fn.model, fn.inputs, fn.resp)
                      ELSE post_embed_batch(fn.inputs, fn.resp)]
  /\ UNCHANGED <<driver, src, pc, runNo, tbl, loc, cnt, hist, emb, runs>>

NextClient == ClientCall

SpecClient == InitClient /\ [][NextClient]_vars

(* --------------- runs of one driver side by side on one table -------- *)
Writers == 1..NWriters

\* The insert tuples a run builds when the service answers every call: its
\* chunk rows, the rows of the source table taken in the order of its page
\* query (ORDER BY rag_char_len ASC or DESC), each with its vector.
TuplesOf(drv, order) ==
  LET work == BuildChunkRows(drv, order)
      m == IF drv = "e5" THEN MODEL_PRIMARY ELSE MODEL
  IN [k \in 1..Len(work) |->
        [url |-> work[k].url, doc_type |-> work[k].doc_type,
         idx |-> work[k].idx, ch |-> work[k].ch,
         vec |-> Vec(m, E5_PREFIX \o work[k].ch), model |-> m]]

Descending(S) ==
  LET up == Ascending(S) IN [k \in 1..Len(up) |-> up[Len(up) + 1 - k]]

InitConc ==
  /\ driver \in Drivers
  /\ src \in [Docs -> SourceRows(driver)]
  /\ committed = {} /\ pending = {}
  /\ pc = "off" /\ runNo = 1
  /\ offset = 0 /\ rows = <<>> /\ chunk_rows = <<>> /\ i = 0
  /\ inserted_since_commit = 0
  /\ total_chunks = 0 /\ total_inserted = 0 /\ total_skipped = 0
  /\ total_batches = 0 /\ total_batches_fallback = 0
  /\ total_series_processed = 0
  /\ faults = 0 /\ commits = 0 /\ dbError = FALSE /\ unstored = 0
  /\ runStart = {} /\ prev = NoPrev /\ last = NoLast
  /\ EmbIdle /\ FnIdle
  /\ \E orders \in [Writers -> {Ascending(Docs), Descending(Docs)}] :
       runs = [w \in Writers |->
                 LET work == TuplesOf(driver, orders[w])
                 IN [pc |-> IF work = <<>> THEN "final" ELSE "insert",
                     work |-> work, p |-> 0, isc |-> 0, pending |-> {}]]

\* no wait for the transaction that holds the key
NeverBlocked(w, t) == FALSE

\* The unique index on (series_url, doc_type, chunk_index): an INSERT of a
\* key that another open transaction has inserted waits until that
\* transaction ends.
Blocked(w, t) ==
  \E v \in Writers \ {w} : \E r \in runs[v].pending : Key(r) = Key(Row(t, w))

\* One row of the INSERT ... ON CONFLICT DO NOTHING of run w; after the last
\* row of the statement, the counters and the window test.
ConcInsertRow(w) ==
  LET r == runs[w]
      t == r.work[r.p + 1]
      p1 == r.p + 1
      stmtEnd == p1 % EMBED_BATCH = 0 \/ p1 = Len(r.work)
      n == IF p1 % EMBED_BATCH = 0 THEN EMBED_BATCH ELSE p1 % EMBED_BATCH
      isc1 == IF stmtEnd THEN r.isc + n ELSE r.isc
      seen == OnConflictDoNothing(committed \cup r.pending, <<t>>, w)
  IN /\ r.pc = "insert"
     /\ ~Blocked(w, t)
     /\ runs' = [runs EXCEPT ![w] =
                   [r EXCEPT !.p = p1, !.isc = isc1,
                             !.pending = seen \ committed,
                             !.pc = IF stmtEnd /\ CommitDue(isc1) THEN "commit"
                                    ELSE IF p1 = Len(r.work) THEN "final"
                                    ELSE "insert"]]
     /\ UNCHANGED <<driver, src, pc, runNo, tbl, loc, cnt, hist, emb, fn>>

\* conn.commit() of run w, in the loop or after it
ConcCommit(w) ==
  LET r == runs[w]
  IN /\ r.pc \in {"commit", "final"}
     /\ committed' = IF r.pc = "final" /\ r.isc = 0 THEN committed
                     ELSE committed \cup r.pending
     /\ runs' = [runs EXCEPT ![w] =
                   [r EXCEPT !.isc = 0,
                             !.pending = IF r.pc = "final" /\ r.isc = 0
                                         THEN r.pending ELSE {},
                             !.pc = IF r.pc = "final" THEN "done"
                                    ELSE IF r.p = Len(r.work) THEN "final"
                                    ELSE "insert"]]
     /\ UNCHANGED <<driver, src, pending, pc, runNo, loc, cnt, hist, emb, fn>>

\* Run w ends before its commit: killed, or its statement fails (among
\* others as the victim of a deadlock); its open transaction is lost.
ConcAbort(w) ==
  /\ runs[w].pc \in {"insert", "commit", "final"}
  /\ runs' = [runs EXCEPT ![w] = [@ EXCEPT !.pc = "failed", !.pending = {}]]
  /\ UNCHANGED <<driver, src, pc, runNo, tbl, loc, cnt, hist, emb, fn>>

NextConc ==
  \/ \E w \in Writers : ConcInsertRow(w)
  \/ \E w \in Writers : ConcCommit(w)
  \/ \E w \in Writers : ConcAbort(w)

SpecConc == InitConc /\ [][NextConc]_vars

(* ------------------------------- claims ------------------------------- *)
KeysOf(table) == {Key(r) : r \in table}
KeysUnique(table) == \A r \in table, q \in table : Key(r) = Key(q) => r = q
AllWork == BuildChunkRows(driver, Ascending(Docs))
AllKeys == {Key(AllWork[k]) : k \in 1..Len(AllWork)}

\* C1: a run killed after a commit, restarted and run to completion, leaves
\* the chunk table an uninterrupted run leaves: every chunk of the source
\* data once, none missing, none twice (the service answering every call).
C1_KilledThenRestarted ==
  (pc = "done" /\ prev.ended = "killed" /\ prev.commits > 0 /\ faults = 0)
    => (KeysOf(committed) = AllKeys /\ KeysUnique(committed))

C3_NeverReprocessed ==
  (pc = "embed" /\ i = 0)
    => \A k \in 1..Len(chunk_rows) :
         ~HasChunks(Visible, chunk_rows[k].url, chunk_rows[k].doc_type)

\* C4: in the committed table the chunk indices of every (document,
\* doc_type) are 0..n without a hole.
C4_ContiguousIndices ==
  \A r \in committed : \A j \in 0..(r.idx - 1) :
    \E q \in committed :
      q.url = r.url /\ q.doc_type = r.doc_type /\ q.idx = j

\* C5: every row of the chunk table, committed or only inserted, has a
\* vector and the model that computed it.
C5_NoRowWithoutVector ==
  \A r \in Visible : r.vec # NoVec /\ r.model # None /\ r.vec.m = r.model

C5_Witness ==
  /\ runNo = 1 /\ total_batches = 1 /\ total_skipped = 1
  /\ Cardinality(Visible) = 1

\* C6: no step removes or changes a committed row, and no step leaves two
\* rows with one key in the table.
C6_AppendOnly ==
  [][(\A r \in committed : r \in committed')
     /\ KeysUnique(committed' \cup pending')]_vars

C6_Witness ==
  /\ pc = "embed" /\ i > 0 /\ total_inserted > 0
  /\ runStart # {} /\ Visible = runStart

\* C7: a failing call of the embedding service never ends the run.
C7_EmbedFailureNeverAborts == pc # "failed_embed"

\* every model fails at every length on every attempt
NoModelAnswers == ~eBatchOk /\ \A m \in Range(Models) : eSvc.cap[m] = 0

\* C8: the call does not raise, the result has one entry per passage, and
\* when no model answers any call every entry is (None, None).
C8_GracefulExhaustion ==
  /\ ePc # "raised"
  /\ ePc = "returned" =>
       /\ Len(eResults) = Len(ePassages)
       /\ NoModelAnswers =>
            \A k \in 1..Len(eResults) : eResults[k] = NoResult

\* the primary answers no call, the fallback answers at a step of the ladder
Fallback == FALLBACK_MODELS[1]
C9_Case ==
  /\ ePc = "returned" /\ ~eBatchOk
  /\ eSvc.cap[MODEL_PRIMARY] = 0
  /\ eSvc.cap[Fallback] \in ConfiguredSteps
  /\ eSvc.cap[Fallback] >= MIN_TRUNC

\* C9: the primary answering no call and the fallback answering at the
\* configured truncation length T, every item whose sanitized text has at
\* least T characters gets the fallback's vector of its first T characters,
\* and the batch counts as a fallback batch.
C9_DegradationLadder ==
  C9_Case =>
    /\ UsedFallback(eResults)
    /\ \A k \in 1..Len(ePassages) :
         LET p_clean == sanitize_text(ePassages[k])
             T == eSvc.cap[Fallback]
         IN Len(p_clean) >= T =>
              /\ eResults[k].model = Fallback
              /\ eResults[k].vec = Vec(Fallback, Slice(p_clean, 0, T))

C9_Witness ==
  /\ C9_Case /\ eSvc.exact /\ eSvc.cap[Fallback] = MIN_TRUNC
  /\ Len(ePassages) = 2
  /\ \A k \in 1..2 : Len(sanitize_text(ePassages[k])) > eSvc.cap[Fallback]
                     /\ eResults[k].model = Fallback

\* C10: a failing insert or commit ends the run there: nothing of the open
\* transaction becomes durable, the committed rows stay, and the only step
\* after it is a new run.
C10_DbErrorEndsRun ==
  [][/\ dbError' => (pc' = "failed_db" /\ pending' = {})
     /\ (dbError' /\ ~dbError) => committed' = committed
     /\ dbError => (runNo' = runNo + 1 /\ committed' = committed)]_vars

C10_Witness ==
  /\ dbError /\ pc = "failed_db"
  /\ commits > 0 /\ committed # {} /\ inserted_since_commit > 0

\* C11: after every sub-batch of a run that goes on, the rows inserted since
\* the last commit are fewer than COMMIT_EVERY; their number never passes
\* COMMIT_EVERY + EMBED_BATCH - 1, not even inside the step that fails at
\* its commit; and a run that ends normally leaves no uncommitted row.
C11_CommitWindow ==
  /\ inserted_since_commit <= COMMIT_EVERY + EMBED_BATCH - 1
  /\ Cardinality(pending) <= inserted_since_commit
  /\ (Running \/ pc = "done") => inserted_since_commit < COMMIT_EVERY
  /\ pc = "done" => pending = {}

C11_Witness ==
  /\ pc = "done" /\ commits >= 2 /\ runNo = 1
  /\ total_inserted = COMMIT_EVERY + 1
  /\ Cardinality(committed) = total_inserted

\* chunk_text has returned; the text its loop worked on, and where in it a
\* chunk lies (no two characters of these texts are alike)
ChunkReturned == fn.op = "chunk_text" /\ fn.pc = "returned"
Worked == Strip(fn.text)
PosIn(t, c) == CHOOSE k \in 1..Len(t) : t[k] = c
PosSet(t, ch) == {PosIn(t, ch[j]) : j \in 1..Len(ch)}
StartOf(t, ch) == PosIn(t, ch[1]) - 1
StepOf == Max(1, fn.size - fn.overlap)

\* C12: for a non-empty sanitized text and 0 <= O < S, chunks i and i+1
\* share exactly min(O, L - start of chunk i+1) positions, and the chunks
\* together cover every position of [0, L).
C12_ChunkCoverage ==
  (/\ ChunkReturned /\ fn.text \in ChunkTexts \ {<<>>}
   /\ sanitize_text(fn.text) = fn.text /\ fn.overlap < fn.size)
    => LET t == fn.text
           L == Len(t)
           out == fn.out
       IN /\ \A n \in 1..(Len(out) - 1) :
               Cardinality(PosSet(t, out[n]) \cap PosSet(t, out[n + 1]))
                 = Min(fn.overlap, L - StartOf(t, out[n + 1]))
          /\ UNION {PosSet(t, out[n]) : n \in 1..Len(out)} = 1..L

C12_Witness ==
  /\ ChunkReturned /\ fn.text = Marked(MaxLen)
  /\ fn.size = 3 /\ fn.overlap = 2 /\ Len(fn.out) = MaxLen
  /\ fn.out[MaxLen] = <<ToString(MaxLen)>>

\* C13: the chunks are, in order, the windows text[k*step : k*step + S] for
\* every k >= 0 with k*step < L and nothing else, step = max(1, S - O), so
\* there are ceil(L / step) of them; the text of 1300 characters with
\* S = 1200 and O = 150 gives [0:1200] and [1050:1300].
C13_ChunkWindows ==
  ChunkReturned
    => LET t == Worked
           L == Len(t)
           out == fn.out
       IN /\ Len(out) = (L + StepOf - 1) \div StepOf
          /\ \A k \in 0..(Len(out) - 1) :
               /\ k * StepOf < L
               /\ out[k + 1] = Slice(t, k * StepOf, k * StepOf + fn.size)
          /\ Len(out) * StepOf >= L
          /\ fn.text = ExampleCall.text /\ fn.size = ExampleCall.size
               /\ fn.overlap = ExampleCall.overlap
             => out = <<Slice(t, 0, 1200), Slice(t, 1050, 1300)>>

C13_Witness ==
  /\ ChunkReturned /\ fn.text = ExampleCall.text /\ fn.size = 1200
  /\ Len(fn.out) = 2 /\ Len(fn.out[1]) = 1200 /\ Len(fn.out[2]) = 250

\* C14: chunk_text returns no chunk for an empty or whitespace-only text,
\* and for every other text it returns chunks, none of them empty.
C14_NoEmptyChunk ==
  ChunkReturned
    => IF \A k \in 1..Len(fn.text) : IsSpace(fn.text[k])
       THEN fn.out = <<>>
       ELSE fn.out # <<>> /\ \A n \in 1..Len(fn.out) : fn.out[n] # <<>>

C14_Witness ==
  /\ ChunkReturned /\ fn.text = <<"sp">> \o Marked(0) \o <<"sp", "sp">>
  /\ fn.out = <<>>

\* rank_series_from_chunks has returned; the chunks of a series in the input
\* order, the ones the cap keeps, the series of the list and where each
\* first appears
RankReturned == fn.op = "rank_series_from_chunks" /\ fn.pc = "returned"
RECURSIVE RowsOfSeries(_, _)
RowsOfSeries(chunks, s) ==
  IF chunks = <<>> THEN <<>>
  ELSE (IF Head(chunks).series_url = s THEN <<Head(chunks)>> ELSE <<>>)
       \o RowsOfSeries(Tail(chunks), s)
KeptOfSeries(s) ==
  LET all == RowsOfSeries(fn.chunks, s)
  IN SubSeq(all, 1, Min(fn.max_chunks_per_series, Len(all)))
SeriesOf(chunks) == {chunks[k].series_url : k \in 1..Len(chunks)}
FirstAt(s) ==
  CHOOSE k \in 1..Len(fn.chunks) :
    /\ fn.chunks[k].series_url = s
    /\ \A j \in 1..(k - 1) : fn.chunks[j].series_url # s

\* C15 as written: the returned documents are in strictly descending order
\* of score and none carries more than M evidence chunks.
C15_StrictlyDescending ==
  RankReturned
    => /\ \A k \in 1..(Len(fn.out) - 1) :
            fn.out[k].score > fn.out[k + 1].score
       /\ \A k \in 1..Len(fn.out) :
            Len(fn.out[k].evidences) <= fn.max_chunks_per_series

\* C15 as amended: the returned documents are in descending order of score,
\* equal scores allowed, and none carries more than M evidence chunks.
C15_Descending ==
  RankReturned
    => /\ \A k \in 1..(Len(fn.out) - 1) :
            fn.out[k].score >= fn.out[k + 1].score
       /\ \A k \in 1..Len(fn.out) :
            Len(fn.out[k].evidences) <= fn.max_chunks_per_series

C15_Witness ==
  /\ RankReturned /\ Len(fn.out) = 3 /\ fn.max_chunks_per_series = 1
  /\ fn.out[1].score > fn.out[2].score
  /\ fn.out[2].score = fn.out[3].score
  /\ Len(RowsOfSeries(fn.chunks, fn.out[1].series_url)) = 2
  /\ Len(fn.out[1].evidences) = 1

\* C16: the evidence chunks of every returned document are the first
\* min(M, count) chunks of that document in the input order, in that order,
\* and its score is the sum of their similarities.
C16_FirstMKept ==
  RankReturned
    => \A k \in 1..Len(fn.out) :
         /\ fn.out[k].evidences = KeptOfSeries(fn.out[k].series_url)
         /\ fn.out[k].score = SumSim(KeptOfSeries(fn.out[k].series_url))

C16_Witness ==
  /\ RankReturned /\ Len(fn.out) = 1 /\ fn.max_chunks_per_series = 2
  /\ Len(RowsOfSeries(fn.chunks, fn.out[1].series_url)) = 3
  /\ Len(fn.out[1].evidences) = 2
  /\ fn.chunks[1].series_url # fn.out[1].series_url
  /\ fn.chunks[MaxChunks].cosine_sim > 0
  /\ fn.out[1].score < SumSim(RowsOfSeries(fn.chunks, fn.out[1].series_url))

\* C17: the result holds min(N, number of distinct documents of the list)
\* documents, each once, and no document of the list left out of it has a
\* higher score than a document in it.
C17_TopN ==
  RankReturned
    => LET got == {fn.out[k].series_url : k \in 1..Len(fn.out)}
           all == SeriesOf(fn.chunks)
       IN /\ Len(fn.out) = Min(fn.top_series, Cardinality(all))
          /\ Cardinality(got) = Len(fn.out) /\ got \subseteq all
          /\ \A s \in all \ got : \A k \in 1..Len(fn.out) :
               SumSim(KeptOfSeries(s)) <= fn.out[k].score

C17_Witness ==
  /\ RankReturned /\ fn.top_series = 2 /\ Len(fn.out) = 2
  /\ Cardinality(SeriesOf(fn.chunks)) = 3
  /\ \E s \in SeriesOf(fn.chunks) :
       /\ FirstAt(s) = 1
       /\ \A k \in 1..2 : fn.out[k].series_url # s
                          /\ SumSim(KeptOfSeries(s)) < fn.out[k].score

\* C18: the order of the result is fixed by the arguments: of two returned
\* documents the earlier has the higher score or, the scores being equal,
\* is the one that appears first in the chunk list.
C18_TiesByFirstAppearance ==
  RankReturned
    => \A k \in 1..Len(fn.out), l \in 1..Len(fn.out) :
         k < l =>
           \/ fn.out[k].score > fn.out[l].score
           \/ /\ fn.out[k].score = fn.out[l].score
              /\ FirstAt(fn.out[k].series_url) < FirstAt(fn.out[l].series_url)

C18_Witness ==
  /\ RankReturned /\ Len(fn.out) = 3
  /\ fn.out[1].score = fn.out[2].score /\ fn.out[2].score = fn.out[3].score
  /\ fn.out[1].score < 0
  /\ FirstAt(fn.out[3].series_url) = 3

\* C19: a call of the embedding client that returns without an error
\* returns one vector per input string, in the order of the inputs.
C19_OneVectorPerInput ==
  (fn.op \in Clients /\ fn.pc = "returned" /\ ~fn.out.raised)
    => /\ Len(fn.out.vecs) = Len(fn.inputs)
       /\ \A k \in 1..Len(fn.out.vecs) :
            fn.out.vecs[k] = Vec(fn.model, fn.inputs[k])

\* the rows of the chunk table and of the open transactions on it
ConcRows == committed \cup UNION {runs[w].pending : w \in Writers}

\* C20: with runs writing side by side, whatever the order of their inserts
\* and commits, no two rows of the chunk table have one key, every row is
\* whole, and no step changes or removes a committed row.
C20_ConcurrentRunsSafe ==
  [][/\ KeysUnique(ConcRows')
     /\ \A r \in ConcRows' :
          r.ch # <<>> /\ r.vec # NoVec /\ r.model # None /\ r.vec.m = r.model
     /\ \A r \in committed : r \in committed']_vars

C20_Witness ==
  /\ runs # <<>>
  /\ \A w \in Writers : runs[w].pc = "done"
  /\ \E r \in committed, q \in committed : r.at = 1 /\ q.at = 2
  /\ runs[1].work # runs[2].work
  /\ Cardinality(committed) = Len(runs[1].work)

(* C21: sanitize_text returns, for every input, a string without byte-order
   mark, zero-width space, C0 or C1 control character, without two
   whitespace characters in a row and without whitespace at either end;
   empty or null input gives the empty string. *)
C21_SanitizedClean ==
  (fn.op = "sanitize_text" /\ fn.pc = "returned") =>
    LET out == fn.out
    IN /\ \A k \in 1..Len(out) :
            out[k] \notin {"bom", "zw", "ctl", "c1", "nel"}
       /\ \A k \in 1..Len(out) - 1 : ~(IsSpace(out[k]) /\ IsSpace(out[k + 1]))
       /\ out # <<>> => ~IsSpace(out[1]) /\ ~IsSpace(out[Len(out)])
       /\ fn.s = <<>> => out = <<>>

\* the same without the C1 controls that are not whitespace
C21_CleanButC1 ==
  (fn.op = "sanitize_text" /\ fn.pc = "returned") =>
    LET out == fn.out
    IN /\ \A k \in 1..Len(out) : out[k] \notin {"bom", "zw", "ctl", "nel"}
       /\ \A k \in 1..Len(out) - 1 : ~(IsSpace(out[k]) /\ IsSpace(out[k + 1]))
       /\ out # <<>> => ~IsSpace(out[1]) /\ ~IsSpace(out[Len(out)])
       /\ fn.s = <<>> => out = <<>>

\* the place of a model in models_to_try, and the requests made for one item
ModelIdx(m) == CHOOSE j \in 1..Len(Models) : Models[j] = m
CallsOf(k) ==
  {j \in 1..Len(eCalls) : eCalls[j].kind = "call" /\ eCalls[j].item = k}
SameCandidate(e, f) ==
  e.item = f.item /\ e.model = f.model /\ e.input = f.input

(* C22: in per-item mode the candidates of an item are tried model by model,
   in the order [primary, fallbacks...], and within a model from the longest
   length to the shortest; a (model, length) candidate gets at most
   MAX_RETRIES + 1 requests, a sleep comes only between two attempts at one
   candidate, the first request that succeeds is the item's last, and an
   item costs at most |models| x |lengths| x (MAX_RETRIES + 1) requests. *)
C22_LadderOrder ==
  ePc = "returned" =>
    /\ \A j \in 1..Len(eCalls) :
         LET e == eCalls[j]
         IN e.item > 0 =>
              /\ e.kind = "call" =>
                   /\ \A j2 \in CallsOf(e.item) :
                        j2 > j =>
                          /\ ModelIdx(e.model) <= ModelIdx(eCalls[j2].model)
                          /\ e.model = eCalls[j2].model =>
                               Len(e.input) >= Len(eCalls[j2].input)
                   /\ Cardinality({j2 \in CallsOf(e.item) :
                                     SameCandidate(e, eCalls[j2])})
                        <= MAX_RETRIES + 1
                   /\ e.ok => \A j2 \in j + 1..Len(eCalls) :
                                eCalls[j2].item # e.item
              /\ e.kind = "sleep" =>
                   /\ j > 1 /\ j < Len(eCalls)
                   /\ eCalls[j - 1].kind = "call" /\ ~eCalls[j - 1].ok
                   /\ eCalls[j + 1].kind = "call"
                   /\ SameCandidate(eCalls[j - 1], eCalls[j + 1])
    /\ \A k \in 1..Len(ePassages) :
         Cardinality(CallsOf(k))
           <= Len(Models) * Len(_build_steps(sanitize_text(ePassages[k])))
                * (MAX_RETRIES + 1)

\* an item that went through both models and two lengths, every candidate
\* retried, and got its vector on the very last request allowed
C22_Witness ==
  /\ ePc = "returned" /\ ~eBatchOk
  /\ \E k \in 1..Len(ePassages) :
       /\ Len(_build_steps(sanitize_text(ePassages[k]))) = 2
       /\ Cardinality(CallsOf(k)) = Len(Models) * 2 * (MAX_RETRIES + 1)
       /\ \E j \in CallsOf(k) : eCalls[j].ok
       /\ \E j \in 1..Len(eCalls) :
            eCalls[j].kind = "sleep" /\ eCalls[j].item = k

(* C24: embed_batch_best_effort first makes one whole-batch request to the
   primary model; when it succeeds no other request is made and every
   result names the primary model; per-item requests are made only after
   the whole-batch request has failed, and then for every item. *)
C24_BatchFirst ==
  ePc = "returned" =>
    /\ eCalls # <<>>
    /\ eCalls[1] = CallEv(0, MODEL_PRIMARY, ePassages, eBatchOk)
    /\ \A j \in 2..Len(eCalls) : eCalls[j].item > 0
    /\ eBatchOk =>
         /\ Len(eCalls) = 1
         /\ \A k \in 1..Len(eResults) : eResults[k].model = MODEL_PRIMARY
    /\ ~eBatchOk => \A k \in 1..Len(ePassages) : CallsOf(k) # {}

\* per-item requests for every item whose sanitized passage is not empty
C24_BatchFirstNonEmptyItems ==
  ePc = "returned" =>
    /\ eCalls # <<>>
    /\ eCalls[1] = CallEv(0, MODEL_PRIMARY, ePassages, eBatchOk)
    /\ \A j \in 2..Len(eCalls) : eCalls[j].item > 0
    /\ eBatchOk =>
         /\ Len(eCalls) = 1
         /\ \A k \in 1..Len(eResults) : eResults[k].model = MODEL_PRIMARY
    /\ ~eBatchOk =>
         \A k \in 1..Len(ePassages) :
           CallsOf(k) # {} <=> sanitize_text(ePassages[k]) # <<>>

\* both cases: a batch of two answered whole, and a batch of two that failed
\* whole and whose two items were then tried one by one
C24_Witness ==
  /\ ePc = "returned" /\ Len(ePassages) = 2
  /\ ~eBatchOk /\ CallsOf(1) # {} /\ CallsOf(2) # {}
  /\ eResults[1].vec # NoVec /\ eResults[2].vec = NoVec

StepsReturned == fn.op = "_build_steps" /\ fn.pc = "returned"
StrictlyDescending(t) == \A k \in 1..Len(t) - 1 : t[k] > t[k + 1]
KeptSteps == {n \in Range(fn.truncate_steps) : n >= fn.min_trunc}
SmallestStep ==
  CHOOSE n \in Range(fn.truncate_steps) :
    \A m \in Range(fn.truncate_steps) : n <= m

(* C23: for a non-empty sanitized text of length L and a descending
   configured step list, _build_steps returns a non-empty, strictly
   descending (so duplicate-free) list of lengths of 1..L, which is the
   configured steps >= MIN_TRUNC clamped to L, and is [L] when L is not
   greater than the smallest configured step. *)
C23_BuildSteps ==
  StepsReturned =>
    /\ fn.out # <<>>
    /\ StrictlyDescending(fn.out)
    /\ Range(fn.out) \subseteq 1..fn.L
    /\ Range(fn.out) = {Min(n, fn.L) : n \in KeptSteps}
    /\ fn.L <= SmallestStep => fn.out = <<fn.L>>

\* the same, the list being [MIN_TRUNC] clamped to L when no configured step
\* reaches MIN_TRUNC
C23_BuildStepsOrMinTrunc ==
  StepsReturned =>
    LET kept == IF KeptSteps = {} THEN {fn.min_trunc} ELSE KeptSteps
    IN /\ fn.out # <<>>
       /\ StrictlyDescending(fn.out)
       /\ Range(fn.out) \subseteq 1..fn.L
       /\ Range(fn.out) = {Min(n, fn.L) : n \in kept}
       /\ fn.L <= SmallestStep => fn.out = <<fn.L>>

\* a text shorter than a configured step that is given twice, and longer
\* than the last step: the first two are clamped and merged
C23_Witness ==
  /\ StepsReturned
  /\ Len(fn.out) = 2 /\ fn.out[1] = fn.L
  /\ Len(fn.truncate_steps) = 3
  /\ fn.truncate_steps[1] = fn.truncate_steps[2]
  /\ fn.truncate_steps[1] > fn.L
  /\ fn.truncate_steps[3] >= fn.min_trunc

\* a turn of the inner loop of the e5 driver, and what it got
E5Turn == driver = "e5" /\ pc = "embed" /\ total_batches' = total_batches + 1
Paired == 1..Min(Len(last.batch), Len(last.results))
WithVec == {k \in Paired : last.results[k].vec # NoVec}
Flagged ==
  \E k \in 1..Len(last.results) :
    last.results[k].model # MODEL_PRIMARY \/ last.results[k].vec = NoVec

(* C25: the e5 driver counts a sub-batch as a fallback batch exactly when one
   of its results has a model other than the primary or no vector; flagged
   or not, the rows inserted are the items that got a vector, the items
   counted as skipped are those that got none and the commit follows the
   window; the fallback counter never exceeds the batch counter. *)
C25_FallbackFlagObservational ==
  /\ [](total_batches_fallback <= total_batches)
  /\ [][E5Turn =>
         /\ total_batches_fallback' =
              total_batches_fallback + (IF Flagged' THEN 1 ELSE 0)
         /\ total_skipped' =
              total_skipped + Cardinality(Paired' \ WithVec')
         /\ ~dbError' =>
              /\ KeysOf(Visible') =
                   KeysOf(Visible) \cup {Key(last'.batch[k]) : k \in WithVec'}
              /\ total_inserted' = total_inserted + Cardinality(WithVec')
              /\ commits' # commits <=>
                   inserted_since_commit + Cardinality(WithVec')
                     >= COMMIT_EVERY
      ]_vars

\* one sub-batch flagged, another not, and a row of the flagged one stored
\* with the model that stood in for the primary
C25_Witness ==
  /\ driver = "e5"
  /\ total_batches_fallback = 1 /\ total_batches = 2
  /\ Flagged
  /\ \E r \in Visible : r.model # MODEL_PRIMARY
  /\ \E r \in Visible : r.model = MODEL_PRIMARY

(* C26: every chunk work item of the e5 driver is accounted for once: after
   each page and at the end of the run, chunks produced = chunks inserted +
   chunks skipped. *)
C26_AllAccounted ==
  (driver = "e5" /\ pc \in {"fetch", "final", "done"}) =>
    total_chunks = total_inserted + total_skipped

(* C27: the 'inserted' counter of a run equals the number of rows the run
   has added to the chunk table; a row that the conflict rule skipped is
   not counted. *)
C27_InsertedCountsRows ==
  (pc \in {"fetch", "embed", "final", "done"}) =>
    total_inserted = Cardinality(Visible \ runStart)

\* the text of the source row that a chunk row of the table comes from
FieldOf(r) ==
  CASE r.doc_type = "resume" -> src[r.url].resume
    [] r.doc_type = "points_forts" -> src[r.url].points_forts
    [] OTHER -> src[r.url].rag_text
ChunksOf(r) == FieldChunks(r.url, r.doc_type, FieldOf(r))
IsPrefixOf(x, t) == x # <<>> /\ Len(x) <= Len(t) /\ x = SubSeq(t, 1, Len(x))
StoresItsChunk(r) ==
  /\ r.idx + 1 \in 1..Len(ChunksOf(r))
  /\ r.ch = ChunksOf(r)[r.idx + 1].ch
  /\ r.model \in Range(Models) \cup {MODEL}
  /\ r.vec.m = r.model

(* C29: every chunk row of the table stores the whole chunk text that the
   chunker produced for its key, with a vector that the service returned
   for that chunk's prefixed text, or for a prefix of it, and with the model
   that returned it. *)
C29_RowHoldsItsOwnVector ==
  \A r \in Visible :
    /\ StoresItsChunk(r)
    /\ IsPrefixOf(r.vec.input, E5_PREFIX \o r.ch)

\* the same, the vector being that of the prefixed text or of a prefix of
\* the prefixed text after sanitize_text
C29_RowHoldsItsOwnVectorSanitized ==
  \A r \in Visible :
    /\ StoresItsChunk(r)
    /\ \/ r.vec.input = E5_PREFIX \o r.ch
       \/ IsPrefixOf(r.vec.input, sanitize_text(E5_PREFIX \o r.ch))

\* two rows of one sub-batch with different texts, one embedded whole by the
\* primary model's stand-in, and a row embedded on a truncated text
C29_Witness ==
  /\ \E r \in Visible :
       /\ r.model # MODEL_PRIMARY /\ r.model # MODEL
       /\ Len(r.vec.input) < Len(sanitize_text(E5_PREFIX \o r.ch))
  /\ \E r1 \in Visible, r2 \in Visible :
       /\ r1.url = r2.url /\ r1.doc_type = r2.doc_type
       /\ r1.idx + 1 = r2.idx /\ r1.ch # r2.ch

(* C28: a run of the resume driver over a finite source table, with a
   service and a database that always succeed, terminates whatever the
   eligible rows hold: the pending-work query comes back empty and the
   final commit is reached. *)
C28_ResumeTerminates == <>(pc = "done")

\* every returned document is there once, and its evidences are rows of the
\* input list with its own id
OwnEvidences ==
  /\ \A j \in 1..Len(fn.out), k \in 1..Len(fn.out) :
       fn.out[j].series_url = fn.out[k].series_url => j = k
  /\ \A k \in 1..Len(fn.out) :
       \A e \in 1..Len(fn.out[k].evidences) :
         /\ fn.out[k].evidences[e] \in Range(fn.chunks)
         /\ fn.out[k].evidences[e].series_url = fn.out[k].series_url

(* C30: for every chunk list and every value of the two parameters, each
   document that rank_series_from_chunks returns is in the result once, has
   at least one evidence chunk, and all its evidence chunks are rows of the
   input list with that document's id. *)
C30_EvidenceOfReturnedDocs ==
  RankReturned =>
    /\ OwnEvidences
    /\ \A k \in 1..Len(fn.out) : fn.out[k].evidences # <<>>

\* the same with at least one evidence chunk when max_chunks_per_series is
\* 1 or more, and none when it is 0
C30_EvidenceOfReturnedDocsCapped ==
  RankReturned =>
    /\ OwnEvidences
    /\ \A k \in 1..Len(fn.out) :
         fn.out[k].evidences = <<>> <=> fn.max_chunks_per_series = 0

\* two documents returned, one of them with two evidence chunks, from a list
\* in which the rows of the two alternate
C30_Witness ==
  /\ RankReturned
  /\ Len(fn.out) >= 2
  /\ \E k \in 1..Len(fn.out) : Len(fn.out[k].evidences) = 2
  /\ Len(fn.chunks) >= 3
  /\ fn.chunks[1].series_url # fn.chunks[2].series_url
  /\ fn.chunks[1].series_url = fn.chunks[3].series_url

====
